---- MODULE Spec2Model ----
(***************************************************************************)
(* The PDF web-optimisation pipeline: the upload ingestor (create_job),    *)
(* the metadata store (write_meta / read_meta), the dispatch queue, the    *)
(* worker (process_pdf) and the status/download gateway (get_job,          *)
(* download).                                                              *)
(*                                                                         *)
(* Text is modelled as sequences of one-character strings, paths as        *)
(* sequences of components (pathlib's parts), each component a text.       *)
(***************************************************************************)
EXTENDS Integers, Sequences, FiniteSets, TLC

\* ------------------------------------------------------------------ bounds

\* Number of job identifiers uuid4 mints in a run.
MaxJobs == 1
\* How many times the at-least-once queue hands the same work item to a worker.
MaxDeliveries == 2
\* settings.MAX_UPLOAD_MB: deployment configuration read from the environment
\* (default 2048); the streaming loop is run for a small configured limit.
MAX_UPLOAD_MB == 2

Jobs == 1..MaxJobs
Workers == {"w1"}

\* ------------------------------------------------------------------- text

Rep(c, n) == [i \in 1..n |-> c]

Min(a, b) == IF a <= b THEN a ELSE b

HexChars == {"0", "1", "2", "3", "4", "5", "6", "7", "8", "9",
             "a", "b", "c", "d", "e", "f"}

\* Length of uuid4().hex, and the {32} of validate_job_id's pattern.
HEX_LEN == 32

\* uuid.uuid4().hex of the j-th minted identifier: 32 lowercase hex digits,
\* distinct for distinct j.
Uuid4Table == [j \in 1..4 |-> Rep(<<"a", "b", "c", "d">>[j], HEX_LEN)]
Uuid4Hex(j) == Uuid4Table[j]

\* re.match(r'^[a-f0-9]{32}$', s): anchored at the start by match; the 32
\* characters of the class; then "$", which without re.MULTILINE matches at
\* the end of the string and also just before a newline that ends the string.
ReMatchJobId(s) ==
    /\ Len(s) >= HEX_LEN
    /\ \A i \in 1..HEX_LEN : s[i] \in HexChars
    /\ \/ Len(s) = HEX_LEN
       \/ Len(s) = HEX_LEN + 1 /\ s[HEX_LEN + 1] = "\n"

\* validate_job_id(job_id): TRUE when it returns, FALSE when it raises 400.
validate_job_id(s) == ReMatchJobId(s)

\* ------------------------------------------------------------------ paths

SLASH == "/"
ROOT == <<"/">>
DOTDOT == <<".", ".">>
DOT == <<".">>

\* The positions that bound the components of text s: before its first
\* character, at every "/", and after its last character.
Cuts(s) == {0, Len(s) + 1} \cup {i \in 1..Len(s) : s[i] = SLASH}

\* The k-th of these positions, counted from 1
NthCut(s, k) == CHOOSE c \in Cuts(s) : Cardinality({d \in Cuts(s) : d < c}) = k - 1

\* The components of text s between "/" separators (empty ones included)
Split(s) ==
    [k \in 1..(Cardinality(Cuts(s)) - 1) |->
        SubSeq(s, NthCut(s, k) + 1, NthCut(s, k + 1) - 1)]

\* A component pathlib keeps: neither empty nor "."
IsPart(c) == c # <<>> /\ c # DOT

DropEmptyAndDot(cs) == SelectSeq(cs, IsPart)

\* The parts of a text t
PartsOf(t) ==
    (IF Len(t) > 0 /\ t[1] = SLASH THEN <<ROOT>> ELSE <<>>)
        \o DropEmptyAndDot(Split(t))

\* pathlib.Path(s).parts: the root when s starts with "/", then the
\* components; empty and "." components are dropped, ".." ones are kept.
\* (s is bound to t so that it is evaluated once.)
Path(s) == CHOOSE r \in {PartsOf(t) : t \in {s}} : TRUE

\* p / name for a text name (name is parsed like a path; an absolute name
\* replaces p).
PathJoin(p, name) ==
    IF Len(name) > 0 /\ name[1] = SLASH THEN Path(name) ELSE p \o Path(name)

RECURSIVE JoinParts(_)
JoinParts(cs) ==
    IF cs = <<>> THEN <<>>
    ELSE IF Len(cs) = 1 THEN cs[1]
    ELSE cs[1] \o <<SLASH>> \o JoinParts(Tail(cs))

\* The text of parts q
TextOf(q) ==
    IF q = <<>> THEN DOT
    ELSE IF Head(q) = ROOT THEN <<SLASH>> \o JoinParts(Tail(q))
    ELSE JoinParts(q)

\* str(p)
PathStr(p) == CHOOSE r \in {TextOf(q) : q \in {p}} : TRUE

\* p.is_relative_to(base): purely lexical, component by component.
is_relative_to(p, base) ==
    /\ Len(base) <= Len(p)
    /\ SubSeq(p, 1, Len(base)) = base

\* p.parent
PathParent(p) == IF Len(p) <= 1 THEN p ELSE SubSeq(p, 1, Len(p) - 1)

\* Where the operating system lands when it follows p: each ".." steps back
\* to the parent (the root is its own parent).  No symbolic links.
RECURSIVE ResolveAcc(_, _)
ResolveAcc(cs, acc) ==
    IF cs = <<>> THEN acc
    ELSE IF Head(cs) = DOTDOT
         THEN ResolveAcc(Tail(cs), IF Len(acc) > 1 THEN SubSeq(acc, 1, Len(acc) - 1) ELSE acc)
         ELSE ResolveAcc(Tail(cs), Append(acc, Head(cs)))

ResolveFrom(q) ==
    IF q # <<>> /\ Head(q) = ROOT THEN ResolveAcc(Tail(q), <<ROOT>>) ELSE ResolveAcc(q, <<>>)

Resolve(p) == CHOOSE r \in {ResolveFrom(q) : q \in {p}} : TRUE

\* STORAGE_DIR default "/data"
STORAGE_DIR == <<"/", "d", "a", "t", "a">>
BASE == Path(STORAGE_DIR)
UPLOADS == PathJoin(BASE, <<"u", "p", "l", "o", "a", "d", "s">>)
OUTPUTS == PathJoin(BASE, <<"o", "u", "t", "p", "u", "t", "s">>)
META == PathJoin(BASE, <<"m", "e", "t", "a">>)

\* ------------------------------------------------------------ safe_filename

LowerSeq == <<"a", "b", "c", "d", "e", "f", "g", "h", "i", "j", "k", "l", "m",
              "n", "o", "p", "q", "r", "s", "t", "u", "v", "w", "x", "y", "z">>
UpperSeq == <<"A", "B", "C", "D", "E", "F", "G", "H", "I", "J", "K", "L", "M",
              "N", "O", "P", "Q", "R", "S", "T", "U", "V", "W", "X", "Y", "Z">>
Digits == {"0", "1", "2", "3", "4", "5", "6", "7", "8", "9"}
Range(f) == {f[i] : i \in DOMAIN f}

\* str.isalnum() of one ASCII character
IsAsciiAlnum(c) == c \in Range(LowerSeq) \cup Range(UpperSeq) \cup Digits

\* ASCII characters that are not alphanumeric
AsciiOther == {"-", "_", ".", SLASH, "\\", " ", "%", "\n"}

IsAscii(c) == IsAsciiAlnum(c) \/ c \in AsciiOther

\* str.lower() of one character
ToLower(c) ==
    IF c \in Range(UpperSeq)
    THEN LowerSeq[CHOOSE i \in DOMAIN UpperSeq : UpperSeq[i] = c]
    ELSE c

\* unicodedata.normalize('NFKD', c) of one character.  Non-ASCII characters
\* are written by code point: U+00E9 e-acute, U+FF0E fullwidth full stop,
\* U+FF0F fullwidth solidus, U+2025 two dot leader, U+D55C a Hangul syllable.
Nfkd(c) ==
    CASE c = "U+00E9" -> <<"e", "U+0301">>
      [] c = "U+FF0E" -> <<".">>
      [] c = "U+FF0F" -> <<SLASH>>
      [] c = "U+2025" -> <<".", ".">>
      [] c = "U+D55C" -> <<"U+1112", "U+1161", "U+11AB">>
      [] OTHER -> <<c>>

\* unicodedata.normalize('NFKD', s): character by character (the text is
\* halved at each step)
RECURSIVE Normalize(_)
Normalize(s) ==
    IF s = <<>> THEN <<>>
    ELSE IF Len(s) = 1 THEN Nfkd(s[1])
    ELSE Normalize(SubSeq(s, 1, Len(s) \div 2))
             \o Normalize(SubSeq(s, Len(s) \div 2 + 1, Len(s)))

\* s.encode('ascii', 'ignore').decode('ascii')
AsciiIgnore(s) == SelectSeq(s, IsAscii)

\* SafeChar that lets the path separator through.
SafeCharOrSlash(c) == IsAsciiAlnum(c) \/ c \in {"-", "_", ".", SLASH}

SafeChar(c) == IsAsciiAlnum(c) \/ c \in {"-", "_", "."}

\* os.path.splitext(s) for s without a separator: the extension starts at
\* the last dot unless only dots precede it.
LastDot(s) == IF \E i \in 1..Len(s) : s[i] = "."
              THEN CHOOSE i \in 1..Len(s) : s[i] = "." /\ \A k \in (i + 1)..Len(s) : s[k] # "."
              ELSE 0

SplitExt(s) ==
    LET d == LastDot(s) IN
    IF d > 0 /\ \E i \in 1..(d - 1) : s[i] # "."
    THEN <<SubSeq(s, 1, d - 1), SubSeq(s, d, Len(s))>>
    ELSE <<s, <<>>>>

LowerText(s) == [i \in 1..Len(s) |-> ToLower(s[i])]

PDF_EXT == <<".", "p", "d", "f">>
FILE_PDF == <<"f", "i", "l", "e", ".", "p", "d", "f">>
INPUT_PDF == <<"i", "n", "p", "u", "t", ".", "p", "d", "f">>

\* stem[:150]
STEM_MAX == 150

safe_filename(name) ==
    LET filtered == SelectSeq(AsciiIgnore(Normalize(name)), SafeChar)
        se == SplitExt(filtered)
        stem == se[1]
        ext == IF se[2] = <<>> \/ LowerText(se[2]) # PDF_EXT THEN PDF_EXT ELSE se[2]
    IN IF stem # <<>> THEN SubSeq(stem, 1, Min(STEM_MAX, Len(stem))) \o ext ELSE FILE_PDF

\* ---------------------------------------------------------- metadata record

\* Python's None and a str value of the "error" field
None == [isNone |-> TRUE, msg |-> <<>>]
Str(s) == [isNone |-> FALSE, msg |-> s]

\* The dict create_job writes and process_pdf updates.  "input" and "output"
\* hold str(path).
Record(job_id, status, input, output, dpi, jpegq, error, original_filename) ==
    [job_id |-> job_id, status |-> status, input |-> input, output |-> output,
     dpi |-> dpi, jpegq |-> jpegq, error |-> error,
     original_filename |-> original_filename]

\* Placeholder carried where there is no record (no file, or a file without
\* content); never read as a record.
NoRecord == Record(<<>>, "", <<>>, <<>>, 0, 0, None, <<>>)

\* The three conditions of a metadata file as a reader finds it:
\*   absent  p.exists() is False
\*   empty   opened for writing (truncated or just created), content not yet written
\*   ok      holds json.dumps(rec)
Absent == [state |-> "absent", rec |-> NoRecord]
Empty == [state |-> "empty", rec |-> NoRecord]
Holds(rec) == [state |-> "ok", rec |-> rec]

\* meta_path(job_id) names one file per identifier text; the store is keyed
\* by minted job number, StoreKey gives the number whose file a text names
\* (0: no such file can exist, nothing was ever written under that name).
StoreKey(s) == IF \E j \in Jobs : Uuid4Hex(j) = s
               THEN CHOOSE j \in Jobs : Uuid4Hex(j) = s
               ELSE 0

\* dpi not in (96, 120, 150)
DpiOk(dpi) == dpi \in {96, 120, 150}
\* 40 <= jpegq <= 85
JpegqOk(q) == 40 <= q /\ q <= 85

ContentTypeOk(ct) == ct \in {"application/pdf", "application/x-pdf"}

\* ------------------------------------------------------------------ state

VARIABLES
    minted,      \* how many identifiers uuid4 has minted: the jobs 1..minted
    call,        \* call[j]: the create_job invocation that minted j
    files,       \* str(path) of every upload and output file that exists
    dirs,        \* the directories that exist (resolved paths)
    metaFile,    \* metaFile[j]: the file meta_path(j), Absent, Empty or Holds(rec)
    queue,       \* the "pdf" queue: pending work items, oldest first
    enq,         \* enq[j]: the arguments of the item enqueued for j
    deliveries,  \* deliveries[j]: how often the item of j was handed to a worker
    wk,          \* wk[w]: worker w's process_pdf invocation
    everDone,    \* history: the jobs whose persisted status has been "done"
    resp         \* the response the gateway is returning now (NoResp: none);
                 \* it is gone when the next operation takes its step

vars == <<minted, call, files, dirs, metaFile, queue, enq,
          deliveries, wk, everDone, resp>>

\* The 4-byte signature b'%PDF'
SIG == <<"%", "P", "D", "F">>

\* file.read(1024 * 1024)
CHUNK == 1024 * 1024

\* max_bytes = settings.MAX_UPLOAD_MB * 1024 * 1024
max_bytes == MAX_UPLOAD_MB * 1024 * 1024

\* An upload body: its first up to four bytes and its length in bytes.
Body(head, len) == [head |-> head, len |-> len]

NoCall == [pc |-> "none", content_type |-> "", dpi |-> 0, jpegq |-> 0, name |-> <<>>,
           body |-> Body(<<>>, 0), remaining |-> 0, written |-> 0,
           first_chunk |-> TRUE]

NoItem == [dpi |-> 0, jpegq |-> 0]

IdleWorker == [pc |-> "idle", job |-> 0, dpi |-> 0, jpegq |-> 0,
               meta |-> NoRecord, pre |-> Absent,
               returncode |-> 0, stderr |-> <<>>, outcome |-> "none",
               result |-> <<>>]

\* A response: the operation, its job_id argument, the HTTP status code (or
\* the exception that escaped the handler), whether read_meta was called,
\* the "status" of the record returned (for a create_job rejection: the
\* parameter that failed) and the request's parameters.
NoResp == [op |-> "none", arg |-> <<>>, code |-> "none", looked |-> FALSE,
           status |-> "", content_type |-> "", dpi |-> 0, jpegq |-> 0]

Response(op, s, code, looked, status) ==
    [NoResp EXCEPT !.op = op, !.arg = s, !.code = code, !.looked = looked,
                   !.status = status]

Rejection(reason, ct, dpi, jpegq) ==
    [NoResp EXCEPT !.op = "create_job", !.code = "400", !.status = reason,
                   !.content_type = ct, !.dpi = dpi, !.jpegq = jpegq]

\* in_path = BASE / "uploads" / f"{job_id}_{orig_name}"
in_path(j, orig_name) == PathJoin(UPLOADS, Uuid4Hex(j) \o <<"_">> \o orig_name)
\* out_path = BASE / "outputs" / f"{job_id}_web.pdf"
out_path(j) == PathJoin(OUTPUTS, Uuid4Hex(j) \o <<"_", "w", "e", "b">> \o PDF_EXT)

\* The name under which the file system keeps the file a path leads to.
FileKey(p) == PathStr(Resolve(p))

\* ensure_dirs(BASE)
ensure_dirs == {Resolve(BASE), Resolve(UPLOADS), Resolve(OUTPUTS), Resolve(META)}

Init ==
    /\ minted = 0
    /\ call = [j \in Jobs |-> NoCall]
    /\ files = {}
    /\ dirs = ensure_dirs
    /\ metaFile = [j \in Jobs |-> Absent]
    /\ queue = <<>>
    /\ enq = [j \in Jobs |-> NoItem]
    /\ deliveries = [j \in Jobs |-> 0]
    /\ wk = [w \in Workers |-> IdleWorker]
    /\ everDone = {}
    /\ resp = NoResp

\* ------------------------------------------------------------- create_job

\* NewJobRecord with the worker's first status written at creation.
NewJobRecordProcessing(j, c) ==
    Record(Uuid4Hex(j), "processing", PathStr(in_path(j, c.name)), PathStr(out_path(j)),
           c.dpi, c.jpegq, None, c.name)

\* The record create_job writes for job j.
NewJobRecord(j, c) ==
    Record(Uuid4Hex(j), "queued", PathStr(in_path(j, c.name)), PathStr(out_path(j)),
           c.dpi, c.jpegq, None, c.name)

\* ParamError with the dpi check ahead of the content-type check.
ParamErrorDpiFirst(ct, dpi, jpegq) ==
    IF ~DpiOk(dpi) THEN "dpi"
    ELSE IF ~ContentTypeOk(ct) THEN "content_type"
    ELSE IF ~JpegqOk(jpegq) THEN "jpegq"
    ELSE "none"

\* Lines 96-105: the first failing check of content type, dpi, jpegq, in
\* that order; "none" when all pass.
ParamError(ct, dpi, jpegq) ==
    IF ~ContentTypeOk(ct) THEN "content_type"
    ELSE IF ~DpiOk(dpi) THEN "dpi"
    ELSE IF ~JpegqOk(jpegq) THEN "jpegq"
    ELSE "none"

\* create_job raising 400 at lines 96-105: nothing was minted or opened.
CreateJobReject(In) ==
    \E ct \in In.content_types, dpi \in In.dpis, jpegq \in In.jpegqs :
        /\ ParamError(ct, dpi, jpegq) # "none"
        /\ resp' = Rejection(ParamError(ct, dpi, jpegq), ct, dpi, jpegq)
        /\ UNCHANGED <<minted, call, files, dirs, metaFile, queue, enq,
                       deliveries, wk, everDone>>

\* Lines 96-118: the parameters pass, an identifier is minted, the name is
\* sanitised and in_path is opened "wb" (created empty).
CreateJobBegin(In) ==
    \E ct \in In.content_types, dpi \in In.dpis, jpegq \in In.jpegqs,
       filename \in In.filenames, body \in In.bodies :
        /\ ParamError(ct, dpi, jpegq) = "none"
        /\ minted < MaxJobs
        /\ LET j == minted + 1
               orig_name == safe_filename(IF filename = <<>> THEN INPUT_PDF ELSE filename)
           IN /\ minted' = j
              /\ call' = [call EXCEPT ![j] =
                     [pc |-> "streaming", content_type |-> ct, dpi |-> dpi, jpegq |-> jpegq,
                      name |-> orig_name, body |-> body, remaining |-> body.len,
                      written |-> 0, first_chunk |-> TRUE]]
              /\ files' = files \cup {FileKey(in_path(j, orig_name))}
        /\ resp' = NoResp
        /\ UNCHANGED <<dirs, metaFile, queue, enq, deliveries, wk, everDone>>

\* len(chunk) < 4 or not chunk.startswith(b'%PDF'), for the first chunk of
\* n bytes of a body
BadSignature(body, n) ==
    LET chunk_head == SubSeq(body.head, 1, Min(Len(body.head), n))
    IN n < 4 \/ Len(chunk_head) < Len(SIG) \/ SubSeq(chunk_head, 1, Len(SIG)) # SIG

\* Oversize testing only what is already on disk, not the chunk in hand.
OversizeWrittenOnly(written, n) == written > max_bytes

\* written + len(chunk) > max_bytes
Oversize(written, n) == written + n > max_bytes

\* One iteration of the streaming loop, lines 119-145.  An empty read ends
\* the loop and the with block closes the file.
CreateJobChunk(j) ==
    /\ call[j].pc = "streaming"
    /\ LET c == call[j]
           n == Min(CHUNK, c.remaining)
           path == FileKey(in_path(j, c.name))
       IN IF n = 0
          THEN /\ call' = [call EXCEPT ![j].pc = "streamed"]
               /\ files' = files
          ELSE IF c.first_chunk /\ BadSignature(c.body, n)
          THEN /\ call' = [call EXCEPT ![j].pc = "rejected400"]
               /\ files' = files \ {path}
          ELSE IF Oversize(c.written, n)
          THEN /\ call' = [call EXCEPT ![j].pc = "rejected413"]
               /\ files' = files \ {path}
          ELSE /\ call' = [call EXCEPT ![j].first_chunk = FALSE,
                                       ![j].written = c.written + n,
                                       ![j].remaining = c.remaining - n]
               /\ files' = files
    /\ resp' = NoResp
    /\ UNCHANGED <<minted, dirs, metaFile, queue, enq, deliveries, wk,
                   everDone>>

\* write_meta, first half: p.write_text opens the file for writing, which
\* creates it or truncates it to no content.
CreateJobOpenMeta(j) ==
    /\ call[j].pc = "streamed"
    /\ metaFile' = [metaFile EXCEPT ![j] = Empty]
    /\ call' = [call EXCEPT ![j].pc = "meta_open"]
    /\ resp' = NoResp
    /\ UNCHANGED <<minted, files, dirs, queue, enq, deliveries, wk, everDone>>

\* write_meta, second half: the text of json.dumps(data) is written and the
\* file closed.
CreateJobWriteMeta(j) ==
    /\ call[j].pc = "meta_open"
    /\ metaFile' = [metaFile EXCEPT ![j] = Holds(NewJobRecord(j, call[j]))]
    /\ call' = [call EXCEPT ![j].pc = "meta_written"]
    /\ resp' = NoResp
    /\ UNCHANGED <<minted, files, dirs, queue, enq, deliveries, wk, everDone>>

\* EnqueuePoint with the two calls in the other order: q.enqueue as soon as
\* the upload is stored, before write_meta.
EnqueueBeforeWrite(j) == call[j].pc = "streamed"

\* Where create_job stands when it calls q.enqueue (line 159): after
\* write_meta has returned.
EnqueuePoint(j) == call[j].pc = "meta_written"

\* Lines 158-168: q.enqueue("worker.process_pdf", job_id, dpi, jpegq), then
\* the response.
CreateJobEnqueue(j) ==
    /\ EnqueuePoint(j)
    /\ queue' = Append(queue, j)
    /\ enq' = [enq EXCEPT ![j] = [dpi |-> call[j].dpi, jpegq |-> call[j].jpegq]]
    /\ call' = [call EXCEPT ![j].pc = "returned"]
    /\ resp' = NoResp
    /\ UNCHANGED <<minted, files, dirs, metaFile, deliveries, wk, everDone>>

\* Line 159 raising: q.enqueue talks to Redis and its exception (server
\* unreachable, connection lost) is not caught, so create_job ends with an
\* error response after write_meta and without a work item.
CreateJobEnqueueFails(j) ==
    /\ EnqueuePoint(j)
    /\ call' = [call EXCEPT ![j].pc = "failed500"]
    /\ resp' = NoResp
    /\ UNCHANGED <<minted, files, dirs, metaFile, queue, enq, deliveries, wk,
                   everDone>>

\* ------------------------------------------------------------ the queue

Pending(j) == \E i \in 1..Len(queue) : queue[i] = j
InFlight(j) == \E w \in Workers : wk[w].pc # "idle" /\ wk[w].job = j

\* Worker.work: an idle worker takes the oldest pending item and calls
\* process_pdf(job_id, dpi, jpegq) with the enqueued arguments.
Deliver(w) ==
    /\ wk[w].pc = "idle"
    /\ queue # <<>>
    /\ LET j == Head(queue)
       IN /\ wk' = [wk EXCEPT ![w] = [IdleWorker EXCEPT !.pc = "start", !.job = j,
                                         !.dpi = enq[j].dpi, !.jpegq = enq[j].jpegq,
                                         !.pre = metaFile[j]]]
          /\ deliveries' = [deliveries EXCEPT ![j] = @ + 1]
    /\ queue' = Tail(queue)
    /\ resp' = NoResp
    /\ UNCHANGED <<minted, call, files, dirs, metaFile, enq, everDone>>

\* At-least-once delivery: an item that was handed out, and is neither
\* pending nor being processed, is made pending again.
Redeliver(j) ==
    /\ deliveries[j] >= 1
    /\ deliveries[j] < MaxDeliveries
    /\ ~Pending(j)
    /\ ~InFlight(j)
    /\ queue' = Append(queue, j)
    /\ resp' = NoResp
    /\ UNCHANGED <<minted, call, files, dirs, metaFile, enq, deliveries, wk,
                   everDone>>

\* ------------------------------------------------------------ process_pdf

\* process_pdf ends: by return ("ok") or by the named exception.  The
\* worker keeps, for the record of the run, the arguments it was called
\* with, the record it found when it took the item and the tool's exit code.
Finish(w, outcome) ==
    [wk EXCEPT ![w] = [IdleWorker EXCEPT !.job = wk[w].job, !.outcome = outcome,
                                         !.dpi = wk[w].dpi, !.jpegq = wk[w].jpegq,
                                         !.pre = wk[w].pre,
                                         !.returncode = wk[w].returncode]]

Whitespace == {" ", "\n", "\t"}

\* str.strip()
RECURSIVE LStrip(_)
LStrip(s) == IF s # <<>> /\ Head(s) \in Whitespace THEN LStrip(Tail(s)) ELSE s
RECURSIVE RStrip(_)
RStrip(s) == IF s # <<>> /\ s[Len(s)] \in Whitespace THEN RStrip(SubSeq(s, 1, Len(s) - 1)) ELSE s
Strip(s) == RStrip(LStrip(s))

\* [:4000]
ERROR_MAX == 4000

GS_FAILED == <<"G", "h", "o", "s", "t", "s", "c", "r", "i", "p", "t", " ",
               "f", "a", "i", "l", "e", "d">>

\* ErrorMsg without the [:4000] slice.
ErrorMsgUntruncated(stderr) == Strip(IF stderr = <<>> THEN GS_FAILED ELSE stderr)

\* (r.stderr or "Ghostscript failed").strip()[:4000]
ErrorMsg(stderr) ==
    LET t == Strip(IF stderr = <<>> THEN GS_FAILED ELSE stderr)
    IN SubSeq(t, 1, Min(ERROR_MAX, Len(t)))

\* PathError without the check of the output path.
PathErrorInputOnly(rec) ==
    IF ~is_relative_to(Path(rec.input), UPLOADS) THEN "ValueError: Invalid input path"
    ELSE "none"

\* Lines 97-103: the exception the path checks raise for a record, "none"
\* when both paths pass.
PathError(rec) ==
    IF ~is_relative_to(Path(rec.input), UPLOADS) THEN "ValueError: Invalid input path"
    ELSE IF ~is_relative_to(Path(rec.output), OUTPUTS) THEN "ValueError: Invalid output path"
    ELSE "none"

\* Every ancestor of a resolved path and the path itself
Ancestors(p) == UNION {{SubSeq(q, 1, n) : n \in 1..Len(q)} : q \in {p}}

\* Lines 81-105: re-validation of the payload, read_meta, the path checks
\* and out_path.parent.mkdir(parents=True, exist_ok=True).
ProcessLoad(w) ==
    /\ wk[w].pc = "start"
    /\ LET j == wk[w].job
           f == metaFile[j]
       IN IF ~DpiOk(wk[w].dpi)
          THEN wk' = Finish(w, "ValueError: Invalid dpi") /\ dirs' = dirs
          ELSE IF ~JpegqOk(wk[w].jpegq)
          THEN wk' = Finish(w, "ValueError: Invalid jpegq") /\ dirs' = dirs
          ELSE IF f.state = "absent"
          THEN wk' = Finish(w, "RuntimeError: meta not found") /\ dirs' = dirs
          ELSE IF f.state = "empty"
          THEN wk' = Finish(w, "JSONDecodeError") /\ dirs' = dirs
          ELSE IF PathError(f.rec) # "none"
          THEN wk' = Finish(w, PathError(f.rec)) /\ dirs' = dirs
          ELSE /\ wk' = [wk EXCEPT ![w].pc = "loaded", ![w].meta = f.rec]
               /\ dirs' = dirs \cup Ancestors(Resolve(PathParent(Path(f.rec.output))))
    /\ resp' = NoResp
    /\ UNCHANGED <<minted, call, files, metaFile, queue, enq, deliveries,
                   everDone>>

\* ProcessingRecord without the error assignment of line 108.
ProcessingRecordErrorKept(meta) == [meta EXCEPT !.status = "processing"]

\* meta["status"] = "processing"; meta["error"] = None
ProcessingRecord(meta) == [meta EXCEPT !.status = "processing", !.error = None]

\* FailedRecord without the status assignment of line 134.
FailedRecordStatusKept(meta, stderr) == [meta EXCEPT !.error = Str(ErrorMsg(stderr))]

\* meta["status"] = "failed"; meta["error"] = error_msg
FailedRecord(meta, stderr) ==
    [meta EXCEPT !.status = "failed", !.error = Str(ErrorMsg(stderr))]

\* DoneRecord without the status assignment of line 145.
DoneRecordStatusKept(meta) == [meta EXCEPT !.error = None]

\* meta["status"] = "done"; meta["error"] = None
DoneRecord(meta) == [meta EXCEPT !.status = "done", !.error = None]

\* Lines 107-109, up to write_meta opening the file: the record in memory
\* becomes "processing" with error None and the file is truncated.
ProcessOpenProcessing(w) ==
    /\ wk[w].pc = "loaded"
    /\ wk' = [wk EXCEPT ![w].pc = "wr_processing",
                        ![w].meta = ProcessingRecord(@)]
    /\ metaFile' = [metaFile EXCEPT ![wk[w].job] = Empty]
    /\ resp' = NoResp
    /\ UNCHANGED <<minted, call, files, dirs, queue, enq, deliveries,
                   everDone>>

\* write_meta writes the text and closes the file (line 109 done).
ProcessWriteProcessing(w) ==
    /\ wk[w].pc = "wr_processing"
    /\ metaFile' = [metaFile EXCEPT ![wk[w].job] = Holds(wk[w].meta)]
    /\ wk' = [wk EXCEPT ![w].pc = "tool"]
    /\ resp' = NoResp
    /\ UNCHANGED <<minted, call, files, dirs, queue, enq, deliveries,
                   everDone>>

\* Lines 112-129: subprocess.run of gs.  The tool is a black box: any exit
\* code, any stderr, and it may or may not leave a file at out_path.
ProcessRunTool(w, Tool) ==
    /\ wk[w].pc = "tool"
    /\ \E rc \in Tool.returncodes, stderr \in Tool.stderrs, produced \in BOOLEAN :
        /\ wk' = [wk EXCEPT ![w].pc = "ran", ![w].returncode = rc, ![w].stderr = stderr]
        /\ files' = IF produced THEN files \cup {FileKey(Path(wk[w].meta.output))} ELSE files
    /\ resp' = NoResp
    /\ UNCHANGED <<minted, call, dirs, metaFile, queue, enq, deliveries,
                   everDone>>

\* ToolFailed that also takes any diagnostic output as a failure.
ToolFailedOnStderr(w) ==
    \/ wk[w].returncode # 0
    \/ wk[w].stderr # <<>>
    \/ FileKey(Path(wk[w].meta.output)) \notin files

\* r.returncode != 0 or not out_path.exists()
ToolFailed(w) ==
    wk[w].returncode # 0 \/ FileKey(Path(wk[w].meta.output)) \notin files

\* Lines 131-136 or 139-147, up to write_meta opening the file: the record
\* in memory becomes "failed" with the error message, or "done" with error
\* None, and the file is truncated.  On the success path in_path.stat()
\* (line 140) comes first and raises when the input file is not there.
ProcessEvaluate(w) ==
    /\ wk[w].pc = "ran"
    /\ IF ToolFailed(w)
       THEN /\ wk' = [wk EXCEPT ![w].pc = "wr_failed",
                                ![w].meta = FailedRecord(@, wk[w].stderr)]
            /\ metaFile' = [metaFile EXCEPT ![wk[w].job] = Empty]
       ELSE IF FileKey(Path(wk[w].meta.input)) \notin files
       THEN /\ wk' = Finish(w, "FileNotFoundError")
            /\ metaFile' = metaFile
       ELSE /\ wk' = [wk EXCEPT ![w].pc = "wr_done", ![w].meta = DoneRecord(@)]
            /\ metaFile' = [metaFile EXCEPT ![wk[w].job] = Empty]
    /\ resp' = NoResp
    /\ UNCHANGED <<minted, call, files, dirs, queue, enq, deliveries,
                   everDone>>

\* write_meta writes the text and closes the file; then line 137 raises
\* RuntimeError(meta["error"]) or line 148 returns.
ProcessWriteFinal(w) ==
    /\ wk[w].pc \in {"wr_failed", "wr_done"}
    /\ metaFile' = [metaFile EXCEPT ![wk[w].job] = Holds(wk[w].meta)]
    /\ wk' = IF wk[w].pc = "wr_failed"
             THEN Finish(w, "RuntimeError: gs")
             ELSE [Finish(w, "ok") EXCEPT ![w].result = wk[w].meta.output]
    /\ everDone' = IF wk[w].pc = "wr_done" THEN everDone \cup {wk[w].job} ELSE everDone
    /\ resp' = NoResp
    /\ UNCHANGED <<minted, call, files, dirs, queue, enq, deliveries>>

\* The worker process dies inside process_pdf (killed, out of memory, host
\* down): whatever it had written stays as it is.
Crash(w) ==
    /\ wk[w].pc # "idle"
    /\ wk' = Finish(w, "crashed")
    /\ resp' = NoResp
    /\ UNCHANGED <<minted, call, files, dirs, metaFile, queue, enq, deliveries,
                   everDone>>

\* ------------------------------------------------------------ the gateway

\* read_meta(BASE, job_id) for an identifier text: the file it finds.
read_meta(s) == IF StoreKey(s) = 0 THEN Absent ELSE metaFile[StoreKey(s)]

\* GET /api/jobs/{job_id}
get_job(s) ==
    IF ~validate_job_id(s) THEN Response("get_job", s, "400", FALSE, "")
    ELSE LET f == read_meta(s)
         IN IF f.state = "absent" THEN Response("get_job", s, "404", TRUE, "")
            ELSE IF f.state = "empty" THEN Response("get_job", s, "JSONDecodeError", TRUE, "")
            ELSE Response("get_job", s, "200", TRUE, f.rec.status)

\* download answering "not ready" only while the job is queued or
\* processing, so that a failed job's output is served too.
downloadUnlessPending(s) ==
    IF ~validate_job_id(s) THEN Response("download", s, "400", FALSE, "")
    ELSE LET f == read_meta(s)
         IN IF f.state = "absent" THEN Response("download", s, "404", TRUE, "")
            ELSE IF f.state = "empty" THEN Response("download", s, "JSONDecodeError", TRUE, "")
            ELSE IF f.rec.status \in {"queued", "processing"}
                 THEN Response("download", s, "409", TRUE, f.rec.status)
            ELSE IF FileKey(Path(f.rec.output)) \notin files
                 THEN Response("download", s, "500", TRUE, f.rec.status)
            ELSE Response("download", s, "200", TRUE, f.rec.status)

\* GET /api/jobs/{job_id}/download
download(s) ==
    IF ~validate_job_id(s) THEN Response("download", s, "400", FALSE, "")
    ELSE LET f == read_meta(s)
         IN IF f.state = "absent" THEN Response("download", s, "404", TRUE, "")
            ELSE IF f.state = "empty" THEN Response("download", s, "JSONDecodeError", TRUE, "")
            ELSE IF f.rec.status # "done" THEN Response("download", s, "409", TRUE, f.rec.status)
            ELSE IF FileKey(Path(f.rec.output)) \notin files
                 THEN Response("download", s, "500", TRUE, f.rec.status)
            ELSE Response("download", s, "200", TRUE, f.rec.status)

GetJob(Ids) ==
    /\ \E s \in Ids : resp' = get_job(s)
    /\ UNCHANGED <<minted, call, files, dirs, metaFile, queue, enq, deliveries,
                   wk, everDone>>

Download(Ids) ==
    /\ \E s \in Ids : resp' = download(s)
    /\ UNCHANGED <<minted, call, files, dirs, metaFile, queue, enq, deliveries,
                   wk, everDone>>

\* ---------------------------------------------------------- specifications

\* The requests, tool results and identifiers the pipeline is run with.
PipelineIn ==
    [content_types |-> {"application/pdf"},
     dpis |-> {150},
     jpegqs |-> {70},
     filenames |-> {<<"a", ".", "p", "d", "f">>},
     bodies |-> {Body(SIG, 1024)}]

PipelineTool ==
    [returncodes |-> {0, 1},
     stderrs |-> {<<"e", "r", "r">>}]

PipelineIds == {Uuid4Hex(j) : j \in Jobs}

Next ==
    \/ CreateJobBegin(PipelineIn)
    \/ \E j \in Jobs : CreateJobChunk(j)
    \/ \E j \in Jobs : CreateJobOpenMeta(j)
    \/ \E j \in Jobs : CreateJobWriteMeta(j)
    \/ \E j \in Jobs : CreateJobEnqueue(j)
    \/ \E j \in Jobs : CreateJobEnqueueFails(j)
    \/ \E w \in Workers : Deliver(w)
    \/ \E j \in Jobs : Redeliver(j)
    \/ \E w \in Workers : ProcessLoad(w)
    \/ \E w \in Workers : ProcessOpenProcessing(w)
    \/ \E w \in Workers : ProcessWriteProcessing(w)
    \/ \E w \in Workers : ProcessRunTool(w, PipelineTool)
    \/ \E w \in Workers : ProcessEvaluate(w)
    \/ \E w \in Workers : ProcessWriteFinal(w)
    \/ \E w \in Workers : Crash(w)
    \/ GetJob(PipelineIds)
    \/ Download(PipelineIds)

Spec == Init /\ [][Next]_vars

\* ---------------------------------------- the pipeline without crashes

\* The pipeline in which no worker process dies: every create_job call and
\* every process_pdf run goes on to its end, the queue hands every pending
\* item to the idle worker, and the tool terminates.  The queue may deliver
\* an item again; clients may poll at any time.
NextLive ==
    \/ CreateJobBegin(PipelineIn)
    \/ \E j \in Jobs : CreateJobChunk(j)
    \/ \E j \in Jobs : CreateJobOpenMeta(j)
    \/ \E j \in Jobs : CreateJobWriteMeta(j)
    \/ \E j \in Jobs : CreateJobEnqueue(j)
    \/ \E j \in Jobs : CreateJobEnqueueFails(j)
    \/ \E w \in Workers : Deliver(w)
    \/ \E j \in Jobs : Redeliver(j)
    \/ \E w \in Workers : ProcessLoad(w)
    \/ \E w \in Workers : ProcessOpenProcessing(w)
    \/ \E w \in Workers : ProcessWriteProcessing(w)
    \/ \E w \in Workers : ProcessRunTool(w, PipelineTool)
    \/ \E w \in Workers : ProcessEvaluate(w)
    \/ \E w \in Workers : ProcessWriteFinal(w)
    \/ GetJob(PipelineIds)

\* The next step of worker w: taking an item when idle, otherwise the next
\* statement of its process_pdf call.
WorkerStep(w) ==
    \/ Deliver(w)
    \/ ProcessLoad(w)
    \/ ProcessOpenProcessing(w)
    \/ ProcessWriteProcessing(w)
    \/ ProcessRunTool(w, PipelineTool)
    \/ ProcessEvaluate(w)
    \/ ProcessWriteFinal(w)

\* Worker.work keeps taking items while there are any and runs each
\* process_pdf call to its return or exception; subprocess.run returns.
Fairness == \A w \in Workers : WF_vars(WorkerStep(w))

SpecLive == Init /\ [][NextLive]_vars /\ Fairness

\* -------------------------------------------------- create_job on its own

XPDF == <<"x", "P", "D", "F">>

\* Requests of every kind: each parameter in and out of range, bodies with
\* and without the signature, from empty to beyond the size limit.
UploadIn ==
    [content_types |-> {"application/pdf", "text/plain"},
     dpis |-> {100, 150},
     jpegqs |-> {39, 70, 86},
     filenames |-> {<<>>},
     bodies |-> {Body(<<>>, 0), Body(<<"%", "P", "D">>, 3), Body(SIG, 4),
                 Body(XPDF, 10), Body(SIG, CHUNK + 1),
                 Body(SIG, max_bytes - 1), Body(SIG, max_bytes),
                 Body(SIG, max_bytes + 1), Body(XPDF, max_bytes + 1),
                 Body(SIG, max_bytes + CHUNK + 1)}]

NextUpload ==
    \/ CreateJobReject(UploadIn)
    \/ CreateJobBegin(UploadIn)
    \/ \E j \in Jobs : CreateJobChunk(j)
    \/ \E j \in Jobs : CreateJobOpenMeta(j)
    \/ \E j \in Jobs : CreateJobWriteMeta(j)
    \/ \E j \in Jobs : CreateJobEnqueue(j)
    \/ \E j \in Jobs : CreateJobEnqueueFails(j)

SpecUpload == Init /\ [][NextUpload]_vars

\* ------------------------------------- create_job's parameter validation

\* Requests with every parameter at, inside and outside the edges of its
\* accepted set, all with a well-formed small body.
ParamIn ==
    [content_types |-> {"application/pdf", "application/x-pdf", "text/plain"},
     dpis |-> {96, 100, 150},
     jpegqs |-> {39, 40, 85, 86},
     filenames |-> {<<>>},
     bodies |-> {Body(SIG, 1024)}]

NextParams ==
    \/ CreateJobReject(ParamIn)
    \/ CreateJobBegin(ParamIn)
    \/ \E j \in Jobs : CreateJobChunk(j)
    \/ \E j \in Jobs : CreateJobOpenMeta(j)
    \/ \E j \in Jobs : CreateJobWriteMeta(j)
    \/ \E j \in Jobs : CreateJobEnqueue(j)

SpecParams == Init /\ [][NextParams]_vars

\* ------------------------------------------- the filename a client supplies

A_PDF == <<"a", ".", "p", "d", "f">>
ETC_PASSWD == <<"/", "e", "t", "c", "/", "p", "a", "s", "s", "w", "d">>
UP_UP == <<"/", ".", ".", "/", ".", ".">>

\* Client filenames: none, plain, with "/" and "\\", with "..", absolute,
\* only dots, with other extensions, with a space, non-ASCII characters that
\* NFKD turns into dots and slashes or that vanish, and a stem longer than
\* the slice.
Filenames ==
    {<<>>,
     A_PDF,
     UP_UP \o ETC_PASSWD,
     ETC_PASSWD,
     DOTDOT,
     <<".", ".", ".">>,
     <<"/">>,
     <<"a", "/", "b", ".", "p", "d", "f">>,
     <<".", ".", "\\", "x">>,
     <<"a", ".", "b", ".", "P", "D", "F">>,
     <<"a", ".", "t", "x", "t">>,
     <<".", "p", "d", "f">>,
     <<"a", " ", "b">>,
     <<"U+00E9">>,
     <<"U+D55C">>,
     <<"U+FF0E", "U+FF0E", "U+FF0F", "x">>,
     <<"U+2025", "/", "x">>,
     Rep("a", STEM_MAX + 1) \o PDF_EXT}

NameIn ==
    [content_types |-> {"application/pdf"},
     dpis |-> {150},
     jpegqs |-> {70},
     filenames |-> Filenames,
     bodies |-> {Body(SIG, 1024)}]

\* create_job for each filename, then the worker's run on the record up to
\* the point where it starts the tool.
NextName ==
    \/ CreateJobBegin(NameIn)
    \/ \E j \in Jobs : CreateJobChunk(j)
    \/ \E j \in Jobs : CreateJobOpenMeta(j)
    \/ \E j \in Jobs : CreateJobWriteMeta(j)
    \/ \E j \in Jobs : CreateJobEnqueue(j)
    \/ \E w \in Workers : Deliver(w)
    \/ \E w \in Workers : ProcessLoad(w)
    \/ \E w \in Workers : ProcessOpenProcessing(w)
    \/ \E w \in Workers : ProcessWriteProcessing(w)

SpecName == Init /\ [][NextName]_vars

\* ------------------------------------------------- process_pdf on its own

Statuses == {"queued", "processing", "done", "failed"}

SRV_X_PDF == <<"/", "s", "r", "v", "/", "x", ".", "p", "d", "f">>
\* Stored "input" values: the one create_job writes, a path outside the
\* uploads root, and one that starts with the root and leaves it through "..".
ProcInputs == {PathStr(in_path(1, A_PDF)), ETC_PASSWD,
               PathStr(UPLOADS) \o UP_UP \o ETC_PASSWD}

\* Stored "output" values, likewise.
ProcOutputs == {PathStr(out_path(1)), SRV_X_PDF,
                PathStr(OUTPUTS) \o UP_UP \o SRV_X_PDF}

\* The records process_pdf may find for job 1: every status, every pair of
\* stored paths (a record can be edited on disk between runs).
ProcRecords ==
    {Record(Uuid4Hex(1), st, inp, out, 150, 70,
            IF st = "failed" THEN Str(<<"o", "l", "d">>) ELSE None, A_PDF) :
        st \in Statuses, inp \in ProcInputs, out \in ProcOutputs}

\* A work item for job 1 is pending, its record and its input file exist.
InitProc ==
    /\ minted = 1
    /\ call = [j \in Jobs |-> IF j = 1 THEN [NoCall EXCEPT !.pc = "returned"] ELSE NoCall]
    /\ \E rec \in ProcRecords, dpi \in {100, 150}, jpegq \in {70, 86} :
        /\ metaFile = [j \in Jobs |-> IF j = 1 THEN Holds(rec) ELSE Absent]
        /\ enq = [j \in Jobs |-> IF j = 1 THEN [dpi |-> dpi, jpegq |-> jpegq] ELSE NoItem]
        /\ files = {FileKey(Path(rec.input))}
    /\ dirs = ensure_dirs
    /\ queue = <<1>>
    /\ deliveries = [j \in Jobs |-> 0]
    /\ wk = [w \in Workers |-> IdleWorker]
    /\ everDone = {}
    /\ resp = NoResp

\* What the tool may answer: either exit code, with a stderr that is empty,
\* only whitespace, short, or longer than the slice after stripping.
ProcTool ==
    [returncodes |-> {0, 1},
     stderrs |-> {<<>>, <<" ", "\n">>, <<"e", "r", "r">>,
                  <<" ">> \o Rep("x", ERROR_MAX + 1)}]

NextProc ==
    \/ \E w \in Workers : Deliver(w)
    \/ \E j \in Jobs : Redeliver(j)
    \/ \E w \in Workers : ProcessLoad(w)
    \/ \E w \in Workers : ProcessOpenProcessing(w)
    \/ \E w \in Workers : ProcessWriteProcessing(w)
    \/ \E w \in Workers : ProcessRunTool(w, ProcTool)
    \/ \E w \in Workers : ProcessEvaluate(w)
    \/ \E w \in Workers : ProcessWriteFinal(w)
    \/ \E w \in Workers : Crash(w)

SpecProc == InitProc /\ [][NextProc]_vars

\* --------------------------------------------------- the gateway on its own

\* Longest tail appended to a 31-digit prefix to form a request's job_id.
MaxIdTail == 2

IdChars == {"a", "F", "g", "\n", SLASH}

\* job_id texts of 31 to 31 + MaxIdTail characters: 31 hex digits followed by
\* any tail over IdChars.  Among them the identifier of job 1.
IdInputs ==
    {Rep("a", HEX_LEN - 1) \o t : t \in UNION {[1..n -> IdChars] : n \in 0..MaxIdTail}}

\* Job 1 has no record, or a record of any status, with or without its
\* output file.
InitId ==
    /\ minted = 1
    /\ call = [j \in Jobs |-> IF j = 1 THEN [NoCall EXCEPT !.pc = "returned"] ELSE NoCall]
    /\ \E f \in {Absent} \cup {Holds(Record(Uuid4Hex(1), st, PathStr(in_path(1, A_PDF)),
                                          PathStr(out_path(1)), 150, 70,
                                          IF st = "failed" THEN Str(<<"o", "l", "d">>) ELSE None,
                                          A_PDF)) : st \in Statuses} :
        metaFile = [j \in Jobs |-> IF j = 1 THEN f ELSE Absent]
    /\ files \in {{FileKey(in_path(1, A_PDF))},
                  {FileKey(in_path(1, A_PDF)), FileKey(out_path(1))}}
    /\ dirs = ensure_dirs
    /\ queue = <<>>
    /\ enq = [j \in Jobs |-> NoItem]
    /\ deliveries = [j \in Jobs |-> 0]
    /\ wk = [w \in Workers |-> IdleWorker]
    /\ everDone = {}
    /\ resp = NoResp

NextId ==
    \/ GetJob(IdInputs)
    \/ Download(IdInputs)

SpecId == InitId /\ [][NextId]_vars

\* ================================================================ claims

\* The job whose item worker w holds or last held
JobOf(w) == wk[w].job

\* C1: write-then-enqueue.  Every work item that is pending or being
\* processed refers to a job whose metadata file exists; an item no worker
\* has taken yet finds the complete record with status "queued"; and
\* process_pdf never raises "meta not found".
C1_MetaBeforeEnqueue ==
    /\ \A j \in Jobs : (Pending(j) \/ InFlight(j)) => metaFile[j].state # "absent"
    /\ \A j \in Jobs : (Pending(j) /\ deliveries[j] = 0) =>
           (metaFile[j].state = "ok" /\ metaFile[j].rec.status = "queued")
    /\ \A w \in Workers : wk[w].outcome # "RuntimeError: meta not found"

\* A worker took an item create_job enqueued and read_meta gave it the record.
C1_Witness ==
    \E w \in Workers : wk[w].pc = "loaded" /\ wk[w].meta.status = "queued"
                       /\ call[JobOf(w)].pc = "returned"

\* C2: no regression from done.  A job whose persisted status has been
\* "done" never shows a record with another status afterwards.
C2_NoRegressionFromDone ==
    \A j \in everDone : metaFile[j].state = "ok" => metaFile[j].rec.status = "done"

\* C3: every processing error on a job whose record exists (unsafe stored
\* path, tool failure, missing output) leaves the persisted record "failed"
\* with a non-null error of at most 4000 characters when process_pdf raises.
C3_ErrorsRecorded ==
    \A w \in Workers :
        wk[w].outcome \in {"ValueError: Invalid input path",
                           "ValueError: Invalid output path",
                           "RuntimeError: gs"} =>
            /\ metaFile[JobOf(w)].state = "ok"
            /\ metaFile[JobOf(w)].rec.status = "failed"
            /\ ~metaFile[JobOf(w)].rec.error.isNone
            /\ Len(metaFile[JobOf(w)].rec.error.msg) <= ERROR_MAX

\* C4: interruption safety.  After a worker died inside process_pdf the
\* persisted record is the one the run started from, or a complete record
\* with the status a finished run writes ("done" or "failed").
C4_InterruptionSafe ==
    \A w \in Workers :
        wk[w].outcome = "crashed" =>
            \/ metaFile[JobOf(w)] = wk[w].pre
            \/ /\ metaFile[JobOf(w)].state = "ok"
               /\ metaFile[JobOf(w)].rec.status \in {"done", "failed"}

\* C5: atomic metadata read.  No read_meta, by the gateway or by the worker,
\* fails on a file without its content: a read gives a complete record or
\* "not found".
C5_AtomicRead ==
    /\ resp.code # "JSONDecodeError"
    /\ \A w \in Workers : wk[w].outcome # "JSONDecodeError"
    /\ resp.code = "200" => resp.status \in Statuses

\* C6 as stated, in what it says of the record returned: whenever get_job
\* returns the record of a job whose create_job has returned, the record's
\* status is "queued".
C6_AlwaysQueued ==
    \A j \in Jobs :
        (resp.op = "get_job" /\ resp.arg = Uuid4Hex(j) /\ call[j].pc = "returned"
            /\ resp.code = "200") =>
            resp.status = "queued"

\* C6 (amended): a get_job on the identifier of a job whose create_job has
\* returned, issued before any worker has taken the job's work item, answers
\* 200 with status "queued".
C6_QueuedUntilDelivered ==
    \A j \in Jobs :
        (resp.op = "get_job" /\ resp.arg = Uuid4Hex(j) /\ call[j].pc = "returned"
            /\ deliveries[j] = 0) =>
            (resp.code = "200" /\ resp.status = "queued")

\* get_job answered for a returned, not yet delivered job.
C6_Witness ==
    \E j \in Jobs : /\ resp.op = "get_job" /\ resp.arg = Uuid4Hex(j)
                    /\ call[j].pc = "returned" /\ deliveries[j] = 0
                    /\ Pending(j) /\ resp.status = "queued"

\* p leads to a place inside root (root itself included)
Within(p, root) == is_relative_to(Resolve(p), root)

\* C7: worker path containment.  process_pdf goes past its path checks (to
\* mkdir, the "processing" write and the tool) only with a record whose
\* stored input leads inside the uploads root and whose stored output leads
\* inside the outputs root, and it creates no directory outside the storage
\* base.
C7_Containment ==
    /\ \A w \in Workers :
           wk[w].pc \notin {"idle", "start"} =>
               /\ Within(Path(wk[w].meta.input), UPLOADS)
               /\ Within(Path(wk[w].meta.output), OUTPUTS)
    /\ \A d \in dirs : is_relative_to(d, BASE)

\* The fixed-length hex token: exactly 32 characters, all of [0-9a-f]
IsHexToken(s) == Len(s) = HEX_LEN /\ \A i \in 1..Len(s) : s[i] \in HexChars

\* C8: identifier validation.  get_job and download answer a job_id that is
\* not exactly 32 characters of [0-9a-f] with 400, without calling read_meta.
C8_IdValidation ==
    (resp.op \in {"get_job", "download"} /\ ~IsHexToken(resp.arg)) =>
        (resp.code = "400" /\ ~resp.looked)

\* The body begins with the four bytes %PDF
HasSignature(body) == Len(body.head) >= Len(SIG) /\ SubSeq(body.head, 1, Len(SIG)) = SIG

\* create_job for j left nothing behind: no upload file, no metadata file,
\* no work item.
NothingLeft(j) ==
    /\ FileKey(in_path(j, call[j].name)) \notin files
    /\ metaFile[j] = Absent
    /\ ~Pending(j)
    /\ enq[j] = NoItem

\* C9: signature check.  A create_job whose body does not begin with %PDF,
\* once past the streaming loop, has been rejected with 400 and has left no
\* upload file, no metadata record and no work item.
C9_SignatureCheck ==
    \A j \in Jobs :
        (call[j].pc \notin {"none", "streaming"} /\ ~HasSignature(call[j].body)) =>
            (call[j].pc = "rejected400" /\ NothingLeft(j))

C11_RejectNoState ==
    /\ [](/\ (resp.op = "create_job" /\ resp.code = "400") =>
               /\ ~ContentTypeOk(resp.content_type) => resp.status = "content_type"
               /\ (ContentTypeOk(resp.content_type) /\ ~DpiOk(resp.dpi)) =>
                      resp.status = "dpi"
               /\ (ContentTypeOk(resp.content_type) /\ DpiOk(resp.dpi)) =>
                      (resp.status = "jpegq" /\ ~JpegqOk(resp.jpegq))
           /\ \A j \in Jobs :
                  call[j].pc # "none" =>
                      /\ ContentTypeOk(call[j].content_type)
                      /\ call[j].dpi \in {96, 120, 150}
                      /\ call[j].jpegq \in 40..85)
    /\ [][(resp'.op = "create_job" /\ resp'.code = "400") =>
              UNCHANGED <<minted, call, files, dirs, metaFile, queue, enq>>]_vars

\* A request with dpi=100 was rejected while an earlier job's record exists.
C11_Witness ==
    /\ resp.op = "create_job" /\ resp.code = "400"
    /\ resp.status = "dpi" /\ resp.dpi = 100
    /\ ContentTypeOk(resp.content_type)
    /\ minted = 1 /\ metaFile[1].state = "ok"

\* A process_pdf run has ended by return or by an exception of its own.
RunEnded(w) == wk[w].pc = "idle" /\ wk[w].outcome \notin {"none", "crashed"}

\* The run of w passed process_pdf's validation: the payload's dpi and jpegq
\* are accepted, the record was there and its two paths passed the checks.
PassedValidation(w) ==
    /\ wk[w].dpi \in {96, 120, 150}
    /\ wk[w].jpegq \in 40..85
    /\ wk[w].pre.state = "ok"
    /\ is_relative_to(Path(wk[w].pre.rec.input), UPLOADS)
    /\ is_relative_to(Path(wk[w].pre.rec.output), OUTPUTS)

\* C12: successful tool run.  A run that passed validation, whose tool
\* exited with code 0 and whose output file exists, returned (raised
\* nothing), named the record's output path in its result, and left the
\* record persisted with status "done" and error None.
C12_SuccessfulRun ==
    \A w \in Workers :
        (/\ RunEnded(w) /\ PassedValidation(w)
         /\ wk[w].returncode = 0
         /\ FileKey(Path(wk[w].pre.rec.output)) \in files) =>
            /\ wk[w].outcome = "ok"
            /\ wk[w].result = wk[w].pre.rec.output
            /\ metaFile[JobOf(w)].state = "ok"
            /\ metaFile[JobOf(w)].rec.status = "done"
            /\ metaFile[JobOf(w)].rec.error = None

\* A run on a queued record returned after the tool exited with 0.
C12_Witness ==
    \E w \in Workers :
        /\ RunEnded(w) /\ PassedValidation(w) /\ wk[w].returncode = 0
        /\ wk[w].pre.rec.status = "queued" /\ wk[w].outcome = "ok"
        /\ metaFile[JobOf(w)].state = "ok" /\ metaFile[JobOf(w)].rec.status = "done"

\* C13: failed tool run.  A run that passed validation and whose tool exited
\* with a non-zero code raised, and left the record persisted with status
\* "failed" and an error that is a text (not None) of at most 4000
\* characters, whatever the tool wrote to stderr.
C13_FailedRun ==
    \A w \in Workers :
        (RunEnded(w) /\ PassedValidation(w) /\ wk[w].returncode # 0) =>
            /\ wk[w].outcome = "RuntimeError: gs"
            /\ metaFile[JobOf(w)].state = "ok"
            /\ metaFile[JobOf(w)].rec.status = "failed"
            /\ ~metaFile[JobOf(w)].rec.error.isNone
            /\ Len(metaFile[JobOf(w)].rec.error.msg) <= 4000

\* A failed run whose stderr was longer than the bound: the stored error is
\* cut to exactly 4000 characters.
C13_Witness ==
    \E w \in Workers :
        /\ RunEnded(w) /\ PassedValidation(w) /\ wk[w].returncode # 0
        /\ wk[w].outcome = "RuntimeError: gs"
        /\ metaFile[JobOf(w)].state = "ok"
        /\ Len(metaFile[JobOf(w)].rec.error.msg) = 4000

\* A failed run whose stderr was only whitespace: the stored error is the
\* empty text.
C13_WitnessBlank ==
    \E w \in Workers :
        /\ RunEnded(w) /\ wk[w].returncode # 0
        /\ metaFile[JobOf(w)].state = "ok"
        /\ metaFile[JobOf(w)].rec.status = "failed"
        /\ metaFile[JobOf(w)].rec.error = Str(<<>>)

\* C14: download gating.  For a well-formed job_id, download answers 404
\* when there is no metadata file for it, 409 when the file holds a record
\* whose status is not "done", and serves the output (200) only when the
\* persisted status is "done".
C14_DownloadGating ==
    (resp.op = "download" /\ IsHexToken(resp.arg)) =>
        /\ read_meta(resp.arg).state = "absent" => resp.code = "404"
        /\ (read_meta(resp.arg).state = "ok"
               /\ read_meta(resp.arg).rec.status # "done") => resp.code = "409"
        /\ resp.code = "200" =>
               (read_meta(resp.arg).state = "ok"
                   /\ read_meta(resp.arg).rec.status = "done")

\* download answered 409 for a failed job whose output file exists.
C14_Witness ==
    /\ resp.op = "download" /\ IsHexToken(resp.arg) /\ resp.code = "409"
    /\ read_meta(resp.arg).state = "ok"
    /\ read_meta(resp.arg).rec.status = "failed"
    /\ FileKey(Path(read_meta(resp.arg).rec.output)) \in files

\* download served the output of a done job.
C14_WitnessServed ==
    /\ resp.op = "download" /\ resp.code = "200"
    /\ read_meta(resp.arg).rec.status = "done"

\* The record one successful run leaves of a queued record rec: the same
\* fields with status "done" and error None.
AfterRunFromQueued(rec) ==
    [[rec EXCEPT !.status = "queued", !.error = None]
        EXCEPT !.status = "done", !.error = None]

\* C15: re-run idempotence.  A run for a job whose record is in processing,
\* failed or done, called with the record's own dpi and jpegq, whose tool
\* succeeds, returns and leaves exactly the record a single successful run
\* from queued leaves: status "done", error None, every other field as it was.
C15_RerunIdempotent ==
    \A w \in Workers :
        (/\ RunEnded(w) /\ PassedValidation(w)
         /\ wk[w].pre.rec.status \in {"processing", "failed", "done"}
         /\ wk[w].dpi = wk[w].pre.rec.dpi /\ wk[w].jpegq = wk[w].pre.rec.jpegq
         /\ wk[w].returncode = 0
         /\ FileKey(Path(wk[w].pre.rec.output)) \in files) =>
            /\ wk[w].outcome = "ok"
            /\ metaFile[JobOf(w)] = Holds(AfterRunFromQueued(wk[w].pre.rec))

\* A job's first run failed, its item was delivered again and the second
\* run succeeded.
C15_Witness ==
    \E w \in Workers :
        /\ RunEnded(w) /\ wk[w].outcome = "ok"
        /\ deliveries[JobOf(w)] = 2
        /\ wk[w].pre.state = "ok" /\ wk[w].pre.rec.status = "failed"
        /\ ~wk[w].pre.rec.error.isNone
        /\ metaFile[JobOf(w)] = Holds(AfterRunFromQueued(wk[w].pre.rec))

\* p is a direct child of root: root's components and one more, which is a
\* name (not ".."), so that following p stays at p.
DirectChild(p, root) ==
    /\ Len(p) = Len(root) + 1
    /\ SubSeq(p, 1, Len(root)) = root
    /\ p[Len(p)] # DOTDOT
    /\ Resolve(p) = p

\* C16: ingestion path containment.  Whatever filename the client sent, the
\* file create_job opens and the "input" it records are a direct child of
\* the uploads root, the "output" it records is a direct child of the
\* outputs root, and process_pdf never rejects such a record at its path
\* checks.
C16_IngestContainment ==
    /\ \A j \in Jobs :
           call[j].pc # "none" => DirectChild(in_path(j, call[j].name), UPLOADS)
    /\ \A j \in Jobs :
           metaFile[j].state = "ok" =>
               /\ DirectChild(Path(metaFile[j].rec.input), UPLOADS)
               /\ DirectChild(Path(metaFile[j].rec.output), OUTPUTS)
    /\ \A f \in files : Len(Path(f)) = Len(UPLOADS) + 1
    /\ \A w \in Workers :
           wk[w].outcome \notin {"ValueError: Invalid input path",
                                "ValueError: Invalid output path"}

\* The worker accepted the record written for the filename
\* "/../../etc/passwd", stored as "....etcpasswd.pdf".
C16_Witness ==
    \E w \in Workers :
        /\ wk[w].pc = "loaded"
        /\ wk[w].meta.original_filename =
               <<".", ".", ".", ".", "e", "t", "c", "p", "a", "s", "s", "w", "d">> \o PDF_EXT
        /\ DirectChild(Path(wk[w].meta.input), UPLOADS)

\* The exceptions process_pdf raises before it writes anything
RejectedOutcomes ==
    {"ValueError: Invalid dpi", "ValueError: Invalid jpegq",
     "RuntimeError: meta not found",
     "ValueError: Invalid input path", "ValueError: Invalid output path"}

\* C17: worker step ordering.  A run is at or past the tool only with a
\* payload whose dpi and jpegq are accepted and a loaded record whose two
\* paths pass the checks; when it starts the tool the persisted record is
\* the loaded one with status "processing" and error None.  A run that ends
\* with a validation, missing-metadata or path exception does so straight
\* from its start, in a step that changes no metadata file and no other
\* file, and leaves the record as it found it.
C17_StepOrdering ==
    /\ [](\A w \in Workers :
             /\ wk[w].pc \in {"tool", "ran", "wr_failed", "wr_done"} =>
                    /\ wk[w].dpi \in {96, 120, 150}
                    /\ wk[w].jpegq \in 40..85
                    /\ wk[w].pre.state = "ok"
                    /\ is_relative_to(Path(wk[w].meta.input), UPLOADS)
                    /\ is_relative_to(Path(wk[w].meta.output), OUTPUTS)
             /\ wk[w].pc = "tool" =>
                    /\ metaFile[JobOf(w)] =
                           Holds([wk[w].pre.rec EXCEPT !.status = "processing",
                                                       !.error = None])
                    /\ wk[w].meta = metaFile[JobOf(w)].rec
             /\ (wk[w].pc = "idle" /\ wk[w].outcome \in RejectedOutcomes) =>
                    metaFile[JobOf(w)] = wk[w].pre)
    /\ [][\A w \in Workers :
              (wk'[w] # wk[w] /\ wk'[w].outcome \in RejectedOutcomes) =>
                  (wk[w].pc = "start" /\ metaFile' = metaFile /\ files' = files
                      /\ dirs' = dirs)]_vars

\* A run on a failed record stands at the tool with the record persisted as
\* processing and its old error cleared.
C17_Witness ==
    \E w \in Workers :
        /\ wk[w].pc = "tool"
        /\ wk[w].pre.state = "ok" /\ wk[w].pre.rec.status = "failed"
        /\ metaFile[JobOf(w)].state = "ok"
        /\ metaFile[JobOf(w)].rec.status = "processing"
        /\ metaFile[JobOf(w)].rec.error = None

\* A run was rejected for its payload's dpi and the record is untouched.
C17_WitnessRejected ==
    \E w \in Workers :
        /\ wk[w].pc = "idle" /\ wk[w].outcome = "ValueError: Invalid dpi"
        /\ wk[w].pre.state = "ok" /\ metaFile[JobOf(w)] = wk[w].pre

\* C18: eventual completion.  When no worker crashes, the queue delivers
\* and the tool terminates, every job whose create_job has returned comes to
\* have a persisted record with status "done" or "failed".
C18_EventualCompletion ==
    \A j \in Jobs :
        (call[j].pc = "returned") ~>
            (metaFile[j].state = "ok" /\ metaFile[j].rec.status \in {"done", "failed"})

\* A returned job was delivered once and its record has reached "failed".
C18_Witness ==
    \E j \in Jobs :
        /\ call[j].pc = "returned" /\ deliveries[j] = 1
        /\ metaFile[j].state = "ok" /\ metaFile[j].rec.status = "failed"
        /\ ~InFlight(j)

\* create_job for j has finished, with a response or with an error
CallFinished(j) ==
    call[j].pc \in {"returned", "rejected400", "rejected413", "failed500"}

\* C19: no orphaned queued record.  Once a create_job call has finished,
\* however it ended, a record it left with status "queued" has its work
\* item in the queue (pending or with a worker), and an upload file it left
\* has a metadata record.
C19_NoOrphan ==
    \A j \in Jobs :
        CallFinished(j) =>
            /\ (metaFile[j].state = "ok" /\ metaFile[j].rec.status = "queued") =>
                   (Pending(j) \/ InFlight(j))
            /\ FileKey(in_path(j, call[j].name)) \in files =>
                   metaFile[j].state = "ok"

\* C20: status/error consistency.  Every persisted record has one of the
\* four statuses, and its error is a text exactly when its status is
\* "failed" (None for queued, processing and done).
C20_StatusErrorConsistent ==
    \A j \in Jobs :
        metaFile[j].state = "ok" =>
            /\ metaFile[j].rec.status \in {"queued", "processing", "done", "failed"}
            /\ ~metaFile[j].rec.error.isNone <=> metaFile[j].rec.status = "failed"

\* A failed job is being reprocessed: its record is persisted as processing
\* with the error cleared.
C20_Witness ==
    \E w \in Workers :
        /\ wk[w].pc = "tool" /\ deliveries[JobOf(w)] = 2
        /\ wk[w].pre.state = "ok" /\ wk[w].pre.rec.status = "failed"
        /\ ~wk[w].pre.rec.error.isNone
        /\ metaFile[JobOf(w)].state = "ok"
        /\ metaFile[JobOf(w)].rec.status = "processing"
        /\ metaFile[JobOf(w)].rec.error.isNone

====
